---- MODULE Spec2Model ----
(***************************************************************************)
(* Model of the gameplay simulation in src/src/main.rs: the phase state    *)
(* machine of main's loop, update_player, update_alien_speed, the          *)
(* collision test and generate_question.                                   *)
(*                                                                         *)
(* Numbers.  The program computes positions and velocities in f32.  Every  *)
(* quantity it uses is a multiple of 0.1 pixel (velocities, positions) or  *)
(* a product speed * frame time, so lengths are modelled exactly as        *)
(* integers in units of 1/Unit pixel and times in milliseconds.  f32       *)
(* rounding is not modelled.                                               *)
(***************************************************************************)
EXTENDS Integers, Sequences, FiniteSets, TLC

VARIABLES
    game_state,   \* main.rs:248  [tag, time_left]; time_left in ms, used by Pause
    score,        \* main.rs:249
    lives,        \* main.rs:250
    question,     \* main.rs:251  the prompt, as the fields format! renders
    choices,      \* main.rs:252  sequence of MultipleChoice
    player,       \* main.rs:253
    alien,        \* main.rs:254
    selected_op,  \* main.rs:263
    held,         \* the keyboard: movement keys currently down (is_key_down)
    ev            \* what the last loop iteration sampled and did (history)

vars == <<game_state, score, lives, question, choices, player, alien,
          selected_op, held, ev>>

-----------------------------------------------------------------------------
(* Units and the program's constants *)

Unit == 1000                       \* sub-pixel units per pixel

MOVE_SPEED == 3 * Unit             \* main.rs:57
BOOST == (3 * Unit) \div 10        \* main.rs:58   0.3
GRAVITY == (2 * Unit) \div 10      \* main.rs:59   0.2
GROUND_Y == 600 * Unit             \* main.rs:60
ALIEN_WALL_BUFFER == 10 * Unit     \* main.rs:64
ALIEN_WIDTH == 60 * Unit           \* main.rs:65
ALIEN_WALL == ALIEN_WIDTH + ALIEN_WALL_BUFFER   \* main.rs:66
INITIAL_LIVES == 10                \* main.rs:69
ScreenW == 1024                    \* main.rs:121  window_width, in pixels
screen_width == ScreenW * Unit     \* macroquad screen_width()
PlayerSize == 60                   \* main.rs:134-135  player width and height, pixels
SpawnDrop == 50                    \* main.rs:131  spawn y = GROUND_Y - 50
AlienSize == 200                   \* main.rs:257-258  alien width and height, pixels
ChoiceW == 100                     \* main.rs:363  hit box width, pixels
ChoiceH == 80                      \* main.rs:364  hit box height, pixels
ChoiceY == 200                     \* main.rs:228  hit box top, pixels
Margin == 100                      \* main.rs:222
ChoiceInset == 40                  \* main.rs:227
BaseSpeed == 50                    \* main.rs:237  pixels per second
SpeedStep == 25                    \* main.rs:242
SpeedThreshold == 500              \* main.rs:238
SpeedInterval == 1000              \* main.rs:241
Reward == 100                      \* main.rs:373
PauseMs == 500                     \* main.rs:374  Pause(0.5)
RampInterval == 500                \* main.rs:160-161
AdditionBase == 10                 \* main.rs:160
MultiplyBase == 5                  \* main.rs:161
MultiplyCap == 15                  \* main.rs:162

Operations == {"Addition", "Multiplication", "Division", "Mixed"}

Min(a, b) == IF a <= b THEN a ELSE b

\* Rust's integer division truncates toward zero.
Quot(a, b) == IF a >= 0 THEN a \div b ELSE -((-a) \div b)

\* f32::floor of a / b for b > 0.
FloorDiv(a, b) == a \div b

-----------------------------------------------------------------------------
(* new_player, main.rs:128-138 *)

new_player ==
    [x |-> ALIEN_WALL, y |-> GROUND_Y - SpawnDrop * Unit, vx |-> 0, vy |-> 0,
     width |-> PlayerSize * Unit, height |-> PlayerSize * Unit,
     state |-> "Normal"]

(* overlaps, main.rs:615-617 *)
overlaps(ax, ay, aw, ah, bx, by, bw, bh) ==
    ax < bx + bw /\ ax + aw > bx /\ ay < by + bh /\ ay + ah > by

\* update_alien_speed with the first step above the threshold forgotten
update_alien_speed_late(a, sc) ==
    IF sc < SpeedThreshold
    THEN [a EXCEPT !.speed = BaseSpeed]
    ELSE LET increments == FloorDiv(sc - SpeedThreshold, SpeedInterval)
         IN  [a EXCEPT !.speed = BaseSpeed + increments * SpeedStep]

(* update_alien_speed, main.rs:236-244: the alien with its speed recomputed *)
update_alien_speed(a, sc) ==
    IF sc < SpeedThreshold
    THEN [a EXCEPT !.speed = BaseSpeed]
    ELSE LET increments == 1 + FloorDiv(sc - SpeedThreshold, SpeedInterval)
         IN  [a EXCEPT !.speed = BaseSpeed + increments * SpeedStep]

\* update_player without the clamp at the alien wall
update_player_no_wall(p, down) ==
    IF p.state = "Normal"
    THEN LET vx == IF "Left" \in down THEN -MOVE_SPEED
                   ELSE IF "Right" \in down THEN MOVE_SPEED ELSE 0
             vy0 == IF "Up" \in down THEN p.vy - BOOST ELSE p.vy
             vy1 == vy0 + GRAVITY
             x1 == p.x + vx
             y1 == p.y + vy1
             x3 == IF x1 + p.width > screen_width
                   THEN screen_width - p.width ELSE x1
             top == y1 < 0
             y2 == IF top THEN 0 ELSE y1
             vy2 == IF top THEN 0 ELSE vy1
             ground == y2 + p.height > GROUND_Y + p.height
         IN  [p EXCEPT !.vx = vx, !.x = x3,
                       !.y = IF ground THEN GROUND_Y ELSE y2,
                       !.vy = IF ground THEN 0 ELSE vy2]
    ELSE LET vy1 == p.vy + GRAVITY
             y1 == p.y + vy1
             ground == y1 + p.height > GROUND_Y + p.height
         IN  [p EXCEPT !.vx = 0,
                       !.y = IF ground THEN GROUND_Y ELSE y1,
                       !.vy = IF ground THEN 0 ELSE vy1,
                       !.state = IF ground THEN "Normal" ELSE "Fail"]

\* update_player with a failing player recovering as soon as it falls
update_player_recovers(p, down) ==
    IF p.state = "Normal"
    THEN LET vx == IF "Left" \in down THEN -MOVE_SPEED
                   ELSE IF "Right" \in down THEN MOVE_SPEED ELSE 0
             vy0 == IF "Up" \in down THEN p.vy - BOOST ELSE p.vy
             vy1 == vy0 + GRAVITY
             x1 == p.x + vx
             y1 == p.y + vy1
             x2 == IF x1 < ALIEN_WALL THEN ALIEN_WALL ELSE x1
             x3 == IF x2 + p.width > screen_width
                   THEN screen_width - p.width ELSE x2
             top == y1 < 0
             y2 == IF top THEN 0 ELSE y1
             vy2 == IF top THEN 0 ELSE vy1
             ground == y2 + p.height > GROUND_Y + p.height
         IN  [p EXCEPT !.vx = vx, !.x = x3,
                       !.y = IF ground THEN GROUND_Y ELSE y2,
                       !.vy = IF ground THEN 0 ELSE vy2]
    ELSE LET vy1 == p.vy + GRAVITY
             y1 == p.y + vy1
             ground == y1 + p.height > GROUND_Y + p.height
         IN  [p EXCEPT !.vx = 0,
                       !.y = IF ground THEN GROUND_Y ELSE y1,
                       !.vy = IF ground THEN 0 ELSE vy1,
                       !.state = IF ground \/ vy1 > 0 THEN "Normal"
                                 ELSE "Fail"]

\* update_player without the clamp at the top of the field
update_player_no_ceiling(p, down) ==
    IF p.state = "Normal"
    THEN LET vx == IF "Left" \in down THEN -MOVE_SPEED
                   ELSE IF "Right" \in down THEN MOVE_SPEED ELSE 0
             vy0 == IF "Up" \in down THEN p.vy - BOOST ELSE p.vy
             vy1 == vy0 + GRAVITY
             x1 == p.x + vx
             y1 == p.y + vy1
             x2 == IF x1 < ALIEN_WALL THEN ALIEN_WALL ELSE x1
             x3 == IF x2 + p.width > screen_width
                   THEN screen_width - p.width ELSE x2
             ground == y1 + p.height > GROUND_Y + p.height
         IN  [p EXCEPT !.vx = vx, !.x = x3,
                       !.y = IF ground THEN GROUND_Y ELSE y1,
                       !.vy = IF ground THEN 0 ELSE vy1]
    ELSE LET vy1 == p.vy + GRAVITY
             y1 == p.y + vy1
             ground == y1 + p.height > GROUND_Y + p.height
         IN  [p EXCEPT !.vx = 0,
                       !.y = IF ground THEN GROUND_Y ELSE y1,
                       !.vy = IF ground THEN 0 ELSE vy1,
                       !.state = IF ground THEN "Normal" ELSE "Fail"]

(* update_player, main.rs:456-500; down is the set of keys is_key_down reports *)
update_player(p, down) ==
    IF p.state = "Normal"
    THEN LET vx == IF "Left" \in down THEN -MOVE_SPEED
                   ELSE IF "Right" \in down THEN MOVE_SPEED ELSE 0
             vy0 == IF "Up" \in down THEN p.vy - BOOST ELSE p.vy
             vy1 == vy0 + GRAVITY
             x1 == p.x + vx
             y1 == p.y + vy1
             x2 == IF x1 < ALIEN_WALL THEN ALIEN_WALL ELSE x1
             x3 == IF x2 + p.width > screen_width
                   THEN screen_width - p.width ELSE x2
             top == y1 < 0
             y2 == IF top THEN 0 ELSE y1
             vy2 == IF top THEN 0 ELSE vy1
             ground == y2 + p.height > GROUND_Y + p.height
         IN  [p EXCEPT !.vx = vx, !.x = x3,
                       !.y = IF ground THEN GROUND_Y ELSE y2,
                       !.vy = IF ground THEN 0 ELSE vy2]
    ELSE LET vy1 == p.vy + GRAVITY
             x1 == p.x + 0
             y1 == p.y + vy1
             ground == y1 + p.height > GROUND_Y + p.height
         IN  [p EXCEPT !.vx = 0, !.x = x1,
                       !.y = IF ground THEN GROUND_Y ELSE y1,
                       !.vy = IF ground THEN 0 ELSE vy1,
                       !.state = IF ground THEN "Normal" ELSE "Fail"]

-----------------------------------------------------------------------------
(* generate_question, main.rs:142-233.  The random number generator is an   *)
(* input: roll holds what it returns during one call,                      *)
(*   pick   the index ops.choose takes (1..3),                             *)
(*   n1, n2 the raw draws behind the two operands,                         *)
(*   wrong  for each of the 3 distractors the raw draws of its rejection   *)
(*          loop, in order,                                                *)
(*   perm   the permutation shuffle applies.                               *)

AdditionStep == 10                 \* main.rs:160
MultiplyStep == 5                  \* main.rs:161

\* gen_range over 0..=m
gen_range_from_zero(m, u) == u % (m + 1)

\* rng.gen_range(1..=m) for the raw draw u
gen_range(m, u) == 1 + (u % m)

\* i32::to_string, main.rs:201 and 213: the decimal digits, most significant
\* first, -1 standing for the minus sign
RECURSIVE Digits(_)
Digits(n) == IF n < 10 THEN <<n>> ELSE Append(Digits(n \div 10), n % 10)

to_string(n) == IF n < 0 THEN <<-1>> \o Digits(-n) ELSE Digits(n)

addition_max(sc) == AdditionBase + Quot(sc, RampInterval) * AdditionStep

multiply_base(sc) == MultiplyBase + Quot(sc, RampInterval) * MultiplyStep

\* multiply_max without the clamp to 15
multiply_max_unclamped(sc) == multiply_base(sc)

multiply_max(sc) == Min(multiply_base(sc), MultiplyCap)

division_max(sc) == multiply_max(sc)

\* main.rs:146-156
actual_op(op, roll) ==
    IF op = "Mixed"
    THEN <<"Addition", "Multiplication", "Division">>[roll.pick]
    ELSE op

\* main.rs:188-193
ramp_max(aop, sc) ==
    CASE aop = "Addition" -> addition_max(sc)
      [] aop = "Multiplication" -> multiply_max(sc)
      [] aop = "Division" -> division_max(sc)
      [] OTHER -> 1

\* main.rs:166-184: the prompt's fields and the correct answer
Generated(aop, sc, roll) ==
    CASE aop = "Addition" ->
           LET num1 == gen_range(addition_max(sc), roll.n1)
               num2 == gen_range(addition_max(sc), roll.n2)
           IN  [lhs |-> to_string(num1), sym |-> "+", rhs |-> to_string(num2),
                correct_answer |-> num1 + num2]
      [] aop = "Multiplication" ->
           LET num1 == gen_range(multiply_max(sc), roll.n1)
               num2 == gen_range(multiply_max(sc), roll.n2)
           IN  [lhs |-> to_string(num1), sym |-> "*", rhs |-> to_string(num2),
                correct_answer |-> num1 * num2]
      [] OTHER ->
           LET divisor == gen_range(division_max(sc), roll.n1)
               quotient == gen_range(division_max(sc), roll.n2)
               dividend == divisor * quotient
           IN  [lhs |-> to_string(dividend), sym |-> "/",
                rhs |-> to_string(divisor), correct_answer |-> quotient]

\* the distractor's first draw taken as it comes
first_draw(draws, m, correct) == gen_range(m, Head(draws))

\* main.rs:206-209: the first draw that differs from the correct answer; 0
\* when every draw listed is rejected (the loop has not ended yet)
RECURSIVE RejectionSample(_, _, _)
RejectionSample(draws, m, correct) ==
    IF draws = <<>> THEN 0
    ELSE LET wrong == gen_range(m, Head(draws))
         IN  IF wrong = correct
             THEN RejectionSample(Tail(draws), m, correct)
             ELSE wrong

\* the answer boxes laid out 150 px apart
ChoiceXCrowded(i) ==
    Margin * Unit + 75 * Unit * (2 * i + 1) - ChoiceInset * Unit

\* main.rs:222-229: the hit box of the choice at 0-based index i
ChoiceX(i) ==
    LET available_width == screen_width - 2 * Margin * Unit
        half_slot == available_width \div 8
    IN  Margin * Unit + half_slot * (2 * i + 1) - ChoiceInset * Unit

\* main.rs:196-229: answers pushed, shuffled, positioned
Answers(g, aop, sc, roll) ==
    LET pushed == <<[text |-> to_string(g.correct_answer), is_correct |-> TRUE]>>
                  \o [k \in 1..3 |->
                        [text |-> to_string(RejectionSample(roll.wrong[k],
                                     ramp_max(aop, sc) * 2, g.correct_answer)),
                         is_correct |-> FALSE]]
        shuffled == [i \in 1..4 |-> pushed[roll.perm[i]]]
    IN  [i \in 1..4 |->
           [x |-> ChoiceX(i - 1), y |-> ChoiceY * Unit,
            text |-> shuffled[i].text, is_correct |-> shuffled[i].is_correct]]

\* the call returns for this roll: every rejection loop ends
Returns(sc, op, roll) ==
    LET aop == actual_op(op, roll)
        g == Generated(aop, sc, roll)
    IN  \A k \in 1..3 :
          RejectionSample(roll.wrong[k], ramp_max(aop, sc) * 2,
                          g.correct_answer) # 0

generate_question(sc, op, roll) ==
    LET aop == actual_op(op, roll)
        g == Generated(aop, sc, roll)
    IN  [question |-> [lhs |-> g.lhs, sym |-> g.sym, rhs |-> g.rhs],
         choices |-> Answers(g, aop, sc, roll)]


-----------------------------------------------------------------------------
(* One iteration of main's loop, main.rs:279-453.                          *)
(* s is the program state before it, a record of the program's variables;  *)
(* inp is what the iteration samples:                                      *)
(*   down     keys is_key_down reports        pressed  keys is_key_pressed *)
(*   dt       get_frame_time(), in ms         roll     the generator's run *)
(* The result is the state after it, with ev describing the iteration.     *)

St == [game_state |-> game_state, score |-> score, lives |-> lives,
       question |-> question, choices |-> choices, player |-> player,
       alien |-> alien, selected_op |-> selected_op]

Phase(tag) == [tag |-> tag, time_left |-> 0]

Pause(ms) == [tag |-> "Pause", time_left |-> ms]

NoEvent(arm, inp) ==
    [arm |-> arm, pressed |-> inp.pressed, dt |-> inp.dt,
     breach |-> FALSE, hit |-> "none", gen |-> FALSE]

\* main.rs:281-292
OpSelect(op, pressed) ==
    IF "A" \in pressed THEN "Addition"
    ELSE IF "M" \in pressed THEN "Multiplication"
    ELSE IF "D" \in pressed THEN "Division"
    ELSE IF "X" \in pressed THEN "Mixed"
    ELSE op

\* the difficulty keys with level 2 presetting 2000
StartScoreSkewed(pressed) ==
    IF "Key0" \in pressed THEN 0
    ELSE IF "Key1" \in pressed THEN 500
    ELSE IF "Key2" \in pressed THEN 2000
    ELSE IF "Key3" \in pressed THEN 1500
    ELSE -1

\* main.rs:298-334: the score the pressed difficulty key presets, -1 for none
StartScore(pressed) ==
    IF "Key0" \in pressed THEN 0
    ELSE IF "Key1" \in pressed THEN 500
    ELSE IF "Key2" \in pressed THEN 1000
    ELSE IF "Key3" \in pressed THEN 1500
    ELSE -1

\* main.rs:281-335
MenuArm(s, inp) ==
    LET op == OpSelect(s.selected_op, inp.pressed)
        start == StartScore(inp.pressed)
        qc == generate_question(start, op, inp.roll)
    IN  IF start >= 0
        THEN [s EXCEPT !.selected_op = op,
                       !.score = start,
                       !.game_state = Phase("Playing"),
                       !.lives = INITIAL_LIVES,
                       !.player = new_player,
                       !.alien = [@ EXCEPT !.y = 0],
                       !.question = qc.question,
                       !.choices = qc.choices]
             @@ [ev |-> [NoEvent("Menu", inp) EXCEPT !.gen = TRUE]]
        ELSE [s EXCEPT !.selected_op = op] @@ [ev |-> NoEvent("Menu", inp)]

\* main.rs:353-370: the 1-based index of the first choice the player
\* overlaps, 0 for none
FirstOverlap(p, ch) ==
    LET over == {i \in 1..Len(ch) :
                   overlaps(p.x, p.y, p.width, p.height,
                            ch[i].x, ch[i].y, ChoiceW * Unit, ChoiceH * Unit)}
    IN  IF over = {} THEN 0 ELSE CHOOSE i \in over : \A j \in over : i <= j

\* the alien staying where it is
DescendHalts(a, dt) == a

\* main.rs:339: alien.y += alien.speed * get_frame_time()
Descend(a, dt) == [a EXCEPT !.y = @ + a.speed * dt]

\* the breach leaving the player where it is
BreachKeepsPlayer(s, inp) ==
    IF s.alien.y + s.alien.height >= GROUND_Y
    THEN LET l == s.lives - 1
             qc == generate_question(s.score, s.selected_op, inp.roll)
         IN  IF l <= 0
             THEN [s EXCEPT !.lives = l, !.game_state = Phase("GameOver"),
                            !.ev = [@ EXCEPT !.breach = TRUE]]
             ELSE [s EXCEPT !.lives = l,
                            !.alien = [@ EXCEPT !.y = 0],
                            !.question = qc.question,
                            !.choices = qc.choices,
                            !.ev = [@ EXCEPT !.breach = TRUE, !.gen = TRUE]]
    ELSE s

\* the breach costing two lives
BreachTakesTwo(s, inp) ==
    IF s.alien.y + s.alien.height >= GROUND_Y
    THEN LET l == s.lives - 2
             qc == generate_question(s.score, s.selected_op, inp.roll)
         IN  IF l <= 0
             THEN [s EXCEPT !.lives = l, !.game_state = Phase("GameOver"),
                            !.ev = [@ EXCEPT !.breach = TRUE]]
             ELSE [s EXCEPT !.lives = l,
                            !.alien = [@ EXCEPT !.y = 0],
                            !.player = new_player,
                            !.question = qc.question,
                            !.choices = qc.choices,
                            !.ev = [@ EXCEPT !.breach = TRUE, !.gen = TRUE]]
    ELSE s

\* main.rs:340-351: the breach
Breach(s, inp) ==
    IF s.alien.y + s.alien.height >= GROUND_Y
    THEN LET l == s.lives - 1
             qc == generate_question(s.score, s.selected_op, inp.roll)
         IN  IF l <= 0
             THEN [s EXCEPT !.lives = l, !.game_state = Phase("GameOver"),
                            !.ev = [@ EXCEPT !.breach = TRUE]]
             ELSE [s EXCEPT !.lives = l,
                            !.alien = [@ EXCEPT !.y = 0],
                            !.player = new_player,
                            !.question = qc.question,
                            !.choices = qc.choices,
                            !.ev = [@ EXCEPT !.breach = TRUE, !.gen = TRUE]]
    ELSE s

\* the collision with a wrong answer also taking 100 points
CollideFined(s) ==
    IF s.player.state = "Normal"
    THEN LET i == FirstOverlap(s.player, s.choices)
             collided == i # 0
             correct_collision == collided /\ s.choices[i].is_correct
         IN  IF collided
             THEN IF correct_collision
                  THEN [s EXCEPT !.score = @ + Reward,
                                 !.game_state = Pause(PauseMs),
                                 !.ev = [@ EXCEPT !.hit = "correct"]]
                  ELSE LET l == s.lives - 1
                       IN  IF l <= 0
                           THEN [s EXCEPT !.lives = l, !.score = @ - Reward,
                                          !.game_state = Phase("GameOver"),
                                          !.ev = [@ EXCEPT !.hit = "wrong"]]
                           ELSE [s EXCEPT !.lives = l, !.score = @ - Reward,
                                          !.player = [@ EXCEPT !.state = "Fail"],
                                          !.ev = [@ EXCEPT !.hit = "wrong"]]
             ELSE s
    ELSE s

\* the collision with a wrong answer also stopping the player
CollideStops(s) ==
    IF s.player.state = "Normal"
    THEN LET i == FirstOverlap(s.player, s.choices)
             collided == i # 0
             correct_collision == collided /\ s.choices[i].is_correct
         IN  IF collided
             THEN IF correct_collision
                  THEN [s EXCEPT !.score = @ + Reward,
                                 !.game_state = Pause(PauseMs),
                                 !.ev = [@ EXCEPT !.hit = "correct"]]
                  ELSE LET l == s.lives - 1
                       IN  IF l <= 0
                           THEN [s EXCEPT !.lives = l,
                                          !.game_state = Phase("GameOver"),
                                          !.ev = [@ EXCEPT !.hit = "wrong"]]
                           ELSE [s EXCEPT !.lives = l,
                                          !.player = [@ EXCEPT !.state = "Fail",
                                                               !.vx = 0,
                                                               !.vy = 0],
                                          !.ev = [@ EXCEPT !.hit = "wrong"]]
             ELSE s
    ELSE s

\* the collision checked whatever the player's state
CollideAnyState(s) ==
    LET i == FirstOverlap(s.player, s.choices)
        collided == i # 0
        correct_collision == collided /\ s.choices[i].is_correct
    IN  IF collided
        THEN IF correct_collision
             THEN [s EXCEPT !.score = @ + Reward,
                            !.game_state = Pause(PauseMs),
                            !.ev = [@ EXCEPT !.hit = "correct"]]
             ELSE LET l == s.lives - 1
                  IN  IF l <= 0
                      THEN [s EXCEPT !.lives = l,
                                     !.game_state = Phase("GameOver"),
                                     !.ev = [@ EXCEPT !.hit = "wrong"]]
                      ELSE [s EXCEPT !.lives = l,
                                     !.player = [@ EXCEPT !.state = "Fail"],
                                     !.ev = [@ EXCEPT !.hit = "wrong"]]
        ELSE s

\* main.rs:352-385: the collision with an answer choice
Collide(s) ==
    IF s.player.state = "Normal"
    THEN LET i == FirstOverlap(s.player, s.choices)
             collided == i # 0
             correct_collision == collided /\ s.choices[i].is_correct
         IN  IF collided
             THEN IF correct_collision
                  THEN [s EXCEPT !.score = @ + Reward,
                                 !.game_state = Pause(PauseMs),
                                 !.ev = [@ EXCEPT !.hit = "correct"]]
                  ELSE LET l == s.lives - 1
                       IN  IF l <= 0
                           THEN [s EXCEPT !.lives = l,
                                          !.game_state = Phase("GameOver"),
                                          !.ev = [@ EXCEPT !.hit = "wrong"]]
                           ELSE [s EXCEPT !.lives = l,
                                          !.player = [@ EXCEPT !.state = "Fail"],
                                          !.ev = [@ EXCEPT !.hit = "wrong"]]
             ELSE s
    ELSE s

\* main.rs:336-385
PlayingArm(s, inp) ==
    LET moved == [s EXCEPT !.player = update_player(@, inp.down),
                           !.alien = Descend(update_alien_speed(@, s.score),
                                             inp.dt)]
                 @@ [ev |-> NoEvent("Playing", inp)]
    IN  Collide(Breach(moved, inp))

\* the Pause arm resuming only once the countdown is below 0
PauseArmLate(s, inp) ==
    LET time_left == s.game_state.time_left - inp.dt
        qc == generate_question(s.score, s.selected_op, inp.roll)
    IN  IF time_left < 0
        THEN [s EXCEPT !.player = new_player,
                       !.alien = [@ EXCEPT !.y = 0],
                       !.question = qc.question,
                       !.choices = qc.choices,
                       !.game_state = Phase("Playing")]
             @@ [ev |-> [NoEvent("Pause", inp) EXCEPT !.gen = TRUE]]
        ELSE [s EXCEPT !.game_state = Pause(time_left)]
             @@ [ev |-> NoEvent("Pause", inp)]

\* the Pause arm with the alien descending on
PauseArmDescends(s, inp) ==
    LET time_left == s.game_state.time_left - inp.dt
        qc == generate_question(s.score, s.selected_op, inp.roll)
    IN  IF time_left <= 0
        THEN [s EXCEPT !.player = new_player,
                       !.alien = [@ EXCEPT !.y = 0],
                       !.question = qc.question,
                       !.choices = qc.choices,
                       !.game_state = Phase("Playing")]
             @@ [ev |-> [NoEvent("Pause", inp) EXCEPT !.gen = TRUE]]
        ELSE [s EXCEPT !.game_state = Pause(time_left),
                       !.alien = Descend(@, inp.dt)]
             @@ [ev |-> NoEvent("Pause", inp)]

\* main.rs:399-408
PauseArm(s, inp) ==
    LET time_left == s.game_state.time_left - inp.dt
        qc == generate_question(s.score, s.selected_op, inp.roll)
    IN  IF time_left <= 0
        THEN [s EXCEPT !.player = new_player,
                       !.alien = [@ EXCEPT !.y = 0],
                       !.question = qc.question,
                       !.choices = qc.choices,
                       !.game_state = Phase("Playing")]
             @@ [ev |-> [NoEvent("Pause", inp) EXCEPT !.gen = TRUE]]
        ELSE [s EXCEPT !.game_state = Pause(time_left)]
             @@ [ev |-> NoEvent("Pause", inp)]

\* the GameOver arm restarting play without the menu
GameOverArmReplays(s, inp) ==
    IF "Space" \in inp.pressed
    THEN [s EXCEPT !.game_state = Phase("Playing")]
         @@ [ev |-> NoEvent("GameOver", inp)]
    ELSE s @@ [ev |-> NoEvent("GameOver", inp)]

\* the GameOver arm returning to the menu with the default operation
GameOverArmForgets(s, inp) ==
    IF "Space" \in inp.pressed
    THEN [s EXCEPT !.game_state = Phase("Menu"), !.selected_op = "Addition"]
         @@ [ev |-> NoEvent("GameOver", inp)]
    ELSE s @@ [ev |-> NoEvent("GameOver", inp)]

\* main.rs:422-450
GameOverArm(s, inp) ==
    IF "Space" \in inp.pressed
    THEN [s EXCEPT !.game_state = Phase("Menu")]
         @@ [ev |-> NoEvent("GameOver", inp)]
    ELSE s @@ [ev |-> NoEvent("GameOver", inp)]

\* the loop with the operation keys read in every phase
MainLoopSelectsAnywhere(s, inp) ==
    LET t == [s EXCEPT !.selected_op = OpSelect(@, inp.pressed)]
    IN  CASE s.game_state.tag = "Menu" -> MenuArm(t, inp)
          [] s.game_state.tag = "Playing" -> PlayingArm(t, inp)
          [] s.game_state.tag = "Pause" -> PauseArm(t, inp)
          [] OTHER -> GameOverArm(t, inp)

\* main.rs:279-453
MainLoop(s, inp) ==
    CASE s.game_state.tag = "Menu" -> MenuArm(s, inp)
      [] s.game_state.tag = "Playing" -> PlayingArm(s, inp)
      [] s.game_state.tag = "Pause" -> PauseArm(s, inp)
      [] OTHER -> GameOverArm(s, inp)

\* the generator is run during this iteration (one call at most)
CallsGenerator(s, inp) == MainLoop(s, inp).ev.gen


-----------------------------------------------------------------------------
(* The loop iteration as a step of the model *)

NoQuestion == [lhs |-> <<>>, sym |-> "", rhs |-> <<>>]

\* main.rs:248-263: the state when the loop is entered
Init ==
    /\ game_state = Phase("Menu")
    /\ score = 0
    /\ lives = INITIAL_LIVES
    /\ question = NoQuestion
    /\ choices = <<>>
    /\ player = new_player
    /\ alien = [x |-> 0, y |-> 0, width |-> AlienSize * Unit,
                height |-> AlienSize * Unit, speed |-> BaseSpeed]
    /\ selected_op = "Addition"
    /\ held = {}
    /\ ev = [arm |-> "init", pressed |-> {}, dt |-> 0, breach |-> FALSE,
             hit |-> "none", gen |-> FALSE]

\* get_frame_time is read in the Playing and Pause arms only (main.rs:339,
\* 400): the other arms sample no frame time, written dt = 0
Inputs(downs, presses, dts, rolls) ==
    [down : downs, pressed : presses, dt : dts, roll : rolls]

\* the loop iteration for input inp; a run of the generator is followed to
\* its return
Step(inp) ==
    \E r \in {MainLoop(St, inp)} :
        /\ r.ev.gen => Returns(r.score, r.selected_op, inp.roll)
        /\ game_state' = r.game_state
        /\ score' = r.score
        /\ lives' = r.lives
        /\ question' = r.question
        /\ choices' = r.choices
        /\ player' = r.player
        /\ alien' = r.alien
        /\ selected_op' = r.selected_op
        /\ held' = inp.down
        /\ ev' = r.ev

\* A round starts at each reset of player and alien.  The movement keys a
\* pilot holds change only there: a pilot holds one combination per round.
RoundStart == player = new_player /\ alien.y = 0

Holds(choices_of_keys) == IF RoundStart THEN choices_of_keys ELSE {held}

-----------------------------------------------------------------------------
(* The game: every phase, low scores *)

DtFrame == 25       \* an ordinary frame time, ms
DtStall == 8000     \* a frame that took long (the window was stalled), ms
MaxGain == 1        \* correct answers followed above the preset score

Dts == {DtFrame, DtStall}

HeldChoices == {{"Left"}, {"Right"}, {"Up", "Right"}}

\* Play is followed in full until MaxGain correct answers above a preset
\* score; from there on only through stalled frames, each a breach
Followed == score % RampInterval < MaxGain * Reward

PlayDts == IF Followed THEN Dts ELSE {DtStall}

\* The generator's runs followed in the game: the correct answer shuffled to
\* the first or to the second box; a distractor's first draw is rejected
\* when it equals the correct answer
RollFirst ==
    [pick |-> 1, n1 |-> 0, n2 |-> 0,
     wrong |-> <<<<1, 2>>, <<0, 3>>, <<-1, 4>>>>, perm |-> <<1, 2, 3, 4>>]

RollSecond ==
    [pick |-> 3, n1 |-> -1, n2 |-> 1,
     wrong |-> <<<<1, 2>>, <<0, 3>>, <<-1, 4>>>>, perm |-> <<2, 1, 3, 4>>]

GameRolls == {RollFirst, RollSecond}

\* keys pressed during a menu frame, and during a game-over frame
MenuPresses ==
    {{}, {"X"}, {"A", "M"}, {"Key3"}, {"A", "Key0"}, {"M", "Key1", "Key2"},
     {"D", "Key2"}}

GameOverPresses == {{}, {"Space"}}

MenuTick ==
    /\ game_state.tag = "Menu"
    /\ \E inp \in Inputs({held}, MenuPresses, {0}, GameRolls) : Step(inp)

PlayingTick ==
    /\ game_state.tag = "Playing"
    /\ \E inp \in Inputs(Holds(HeldChoices), {{}}, PlayDts, GameRolls) :
          Step(inp)

PauseTick ==
    /\ game_state.tag = "Pause"
    /\ \E inp \in Inputs({held}, {{}}, Dts, GameRolls) : Step(inp)

GameOverTick ==
    /\ game_state.tag = "GameOver"
    /\ \E inp \in Inputs({held}, GameOverPresses, {0}, GameRolls) : Step(inp)

Next == MenuTick \/ PlayingTick \/ PauseTick \/ GameOverTick

Spec == Init /\ [][Next]_vars

-----------------------------------------------------------------------------
(* The long run: one episode from score 0 in which the pilot flies up and  *)
(* right every round and the correct answer is always in the second box,   *)
(* so that the score climbs through the steps of the difficulty ramps      *)

MaxRunScore == 3000

RunMenuTick ==
    /\ game_state.tag = "Menu"
    /\ \E inp \in Inputs({held}, {{}, {"Key0"}}, {0}, {RollSecond}) : Step(inp)

RunPlayingTick ==
    /\ game_state.tag = "Playing"
    /\ score < MaxRunScore
    /\ \E inp \in Inputs(Holds({{"Up", "Right"}}), {{}}, {DtFrame},
                         {RollSecond}) : Step(inp)

RunPauseTick ==
    /\ game_state.tag = "Pause"
    /\ \E inp \in Inputs({held}, {{}}, {DtFrame}, {RollSecond}) : Step(inp)

NextRun == RunMenuTick \/ RunPlayingTick \/ RunPauseTick

SpecRun == Init /\ [][NextRun]_vars

-----------------------------------------------------------------------------
(* The generator alone: generate_question applied to scores and operation  *)
(* modes drawn from bounded sets, for every run of the random number       *)
(* generator in FnRolls.  ev records the call: its arguments, the run and  *)
(* the three operand bounds it computes (main.rs:160-163).                 *)

MaxFnScore == 2600

\* around every step of the ramps: the first score of a step, one correct
\* answer later, and the last score before the next step
FnScores == {s \in 0..MaxFnScore : s % RampInterval \in {0, Reward, RampInterval - 1}}

\* raw draws: the lowest two values of a range and its highest
FnRaw == {0, 1, -1}

FnWrong ==
    {<<a, b, c>> : a \in {<<0, 1>>, <<1, -1>>},
                   b \in {<<1, -1>>, <<-1, 2>>},
                   c \in {<<-1, 2>>, <<0, 1>>}}

FnPerms == {<<1, 2, 3, 4>>, <<2, 1, 3, 4>>, <<4, 3, 2, 1>>, <<2, 4, 1, 3>>}

FnRolls ==
    [pick : 1..3, n1 : FnRaw, n2 : FnRaw, wrong : FnWrong, perm : FnPerms]

NoCall ==
    [arm |-> "init", score |-> 0, op |-> "", roll |-> <<>>,
     addition_max |-> 0, multiply_max |-> 0, division_max |-> 0]

InitFn ==
    /\ game_state = Phase("Menu")
    /\ score \in FnScores
    /\ lives = INITIAL_LIVES
    /\ question = NoQuestion
    /\ choices = <<>>
    /\ player = new_player
    /\ alien = [x |-> 0, y |-> 0, width |-> AlienSize * Unit,
                height |-> AlienSize * Unit, speed |-> BaseSpeed]
    /\ selected_op \in Operations
    /\ held = {}
    /\ ev = NoCall

\* one call generate_question(score, selected_op) on fresh arguments
FnGenerate ==
    /\ question = NoQuestion
    /\ \E roll \in FnRolls :
         /\ Returns(score, selected_op, roll)
         /\ \E qc \in {generate_question(score, selected_op, roll)} :
              /\ question' = qc.question
              /\ choices' = qc.choices
         /\ ev' = [arm |-> "generate", score |-> score, op |-> selected_op,
                   roll |-> roll,
                   addition_max |-> addition_max(score),
                   multiply_max |-> multiply_max(score),
                   division_max |-> division_max(score)]
    /\ UNCHANGED <<game_state, score, lives, player, alien, selected_op, held>>

\* the next higher score becomes the argument; ev keeps the score and the
\* bounds of the last call
FnRaise ==
    /\ question # NoQuestion
    /\ \E s \in FnScores :
         /\ s > score
         /\ \A t \in FnScores : t > score => s <= t
         /\ score' = s
    /\ question' = NoQuestion
    /\ choices' = <<>>
    /\ ev' = [ev EXCEPT !.arm = "raise", !.roll = <<>>]
    /\ UNCHANGED <<game_state, lives, player, alien, selected_op, held>>

NextFn == FnGenerate \/ FnRaise

SpecFn == InitFn /\ [][NextFn]_vars

-----------------------------------------------------------------------------
(* Every key in every phase: the pilot also presses the keys the current   *)
(* phase does not read, and holds movement keys outside of play            *)

KeysMenuPresses ==
    {{}, {"Space"}, {"Key0", "Space"}, {"X", "Space"}, {"D"}, {"M", "Key1"}}

KeysPlayPresses == {{}, {"Key1", "M", "Space"}}

KeysPausePresses == {{}, {"Key2", "X"}, {"Space"}}

KeysOverPresses == {{}, {"Space"}, {"Key0", "A"}, {"Space", "D", "Key3"}}

\* movement keys held while no round is flown
KeysIdleDowns == {{}, {"Left", "Up"}}

KeysMenuTick ==
    /\ game_state.tag = "Menu"
    /\ \E inp \in Inputs(KeysIdleDowns, KeysMenuPresses, {0}, {RollSecond}) :
          Step(inp)

KeysPlayingTick ==
    /\ game_state.tag = "Playing"
    /\ \E inp \in Inputs(Holds({{"Up", "Right"}}), KeysPlayPresses, PlayDts,
                         {RollSecond}) : Step(inp)

KeysPauseTick ==
    /\ game_state.tag = "Pause"
    /\ \E inp \in Inputs(KeysIdleDowns, KeysPausePresses, Dts, {RollSecond}) :
          Step(inp)

KeysGameOverTick ==
    /\ game_state.tag = "GameOver"
    /\ \E inp \in Inputs(KeysIdleDowns, KeysOverPresses, {0}, {RollSecond}) :
          Step(inp)

NextKeys ==
    KeysMenuTick \/ KeysPlayingTick \/ KeysPauseTick \/ KeysGameOverTick

SpecKeys == Init /\ [][NextKeys]_vars

-----------------------------------------------------------------------------
(* The collision check alone, main.rs:352-385: the player is placed        *)
(* anywhere its flight can have taken it 300 frames into the first round   *)
(* of an episode, and the check is run once                                *)

FieldFrames == 300

\* x advances by 0 or MOVE_SPEED per frame from ALIEN_WALL up to the right
\* clamp
FieldXs ==
    {ALIEN_WALL + k * MOVE_SPEED :
        k \in 0..((screen_width - PlayerSize * Unit - ALIEN_WALL)
                     \div MOVE_SPEED)}

\* heights around the band of the answer boxes, and the ground
FieldYs ==
    {(ChoiceY - PlayerSize) * Unit, (ChoiceY - PlayerSize) * Unit + 100,
     ChoiceY * Unit + 10 * Unit,
     (ChoiceY + ChoiceH) * Unit - 100, (ChoiceY + ChoiceH) * Unit,
     GROUND_Y}

InitBox ==
    /\ game_state = Phase("Playing")
    /\ score = 0
    /\ lives = INITIAL_LIVES
    /\ selected_op = "Addition"
    /\ \E roll \in GameRolls :
         /\ Returns(0, "Addition", roll)
         /\ question = generate_question(0, "Addition", roll).question
         /\ choices = generate_question(0, "Addition", roll).choices
    /\ \E x \in FieldXs, y \in FieldYs :
         player = [new_player EXCEPT !.x = x, !.y = y]
    /\ alien = [x |-> 0, y |-> FieldFrames * BaseSpeed * DtFrame,
                width |-> AlienSize * Unit, height |-> AlienSize * Unit,
                speed |-> BaseSpeed]
    /\ held = {}
    /\ ev = [arm |-> "placed", first |-> 0, hit |-> "none"]

\* main.rs:352-385 run on the state
BoxCheck ==
    /\ ev.arm = "placed"
    /\ \E r \in {Collide(St @@ [ev |-> [hit |-> "none"]])} :
         /\ game_state' = r.game_state
         /\ score' = r.score
         /\ lives' = r.lives
         /\ player' = r.player
         /\ ev' = [arm |-> "checked",
                   first |-> FirstOverlap(player, choices),
                   hit |-> r.ev.hit]
    /\ UNCHANGED <<question, choices, alien, selected_op, held>>

NextBox == BoxCheck

SpecBox == InitBox /\ [][NextBox]_vars

-----------------------------------------------------------------------------
(* The climb: one episode from score 0 in which the pilot first holds Up   *)
(* (or Right, staying on the ground) and, while no life is lost, may add   *)
(* Right at any frame, so that the answer boxes are entered from the side  *)
(* at any height and vertical speed                                        *)

MaxFlyLosses == 1

FlyDowns ==
    IF RoundStart THEN {{"Up"}, {"Right"}}
    ELSE IF held = {"Up"} /\ lives = INITIAL_LIVES
         THEN {{"Up"}, {"Up", "Right"}}
         ELSE {held}

FlyMenuTick ==
    /\ game_state.tag = "Menu"
    /\ \E inp \in Inputs({held}, {{}, {"Key0"}}, {0}, {RollSecond}) : Step(inp)

FlyPlayingTick ==
    /\ game_state.tag = "Playing"
    /\ lives >= INITIAL_LIVES - MaxFlyLosses
    /\ \E inp \in Inputs(FlyDowns, {{}}, {DtFrame}, {RollSecond}) : Step(inp)

NextFly == FlyMenuTick \/ FlyPlayingTick

SpecFly == Init /\ [][NextFly]_vars

-----------------------------------------------------------------------------
(* The loop that keeps running: every iteration ends in next_frame().await *)
(* and the next one follows (main.rs:279, 452), each Playing and Pause     *)
(* frame taking DtSlow at least.  Episodes start at score 0; once          *)
(* MaxLiveGain correct answers are in, the correct answer moves from the   *)
(* second box to the first, which these pilots do not reach                *)

MaxLiveGain == 1

DtSlow == 100       \* the frame time of a slow machine, ms

LiveDts == {DtSlow, DtStall}

LiveRolls ==
    IF score < MaxLiveGain * Reward THEN {RollSecond} ELSE {RollFirst}

LiveHeld == {{"Right"}, {"Up", "Right"}}

LiveMenuTick ==
    /\ game_state.tag = "Menu"
    /\ \E inp \in Inputs({held}, {{}, {"Key0"}}, {0}, LiveRolls) : Step(inp)

LivePlayingTick ==
    /\ game_state.tag = "Playing"
    /\ \E inp \in Inputs(Holds(LiveHeld), {{}}, LiveDts, LiveRolls) : Step(inp)

LivePauseTick ==
    /\ game_state.tag = "Pause"
    /\ \E inp \in Inputs({held}, {{}}, {DtSlow}, LiveRolls) : Step(inp)

LiveGameOverTick ==
    /\ game_state.tag = "GameOver"
    /\ \E inp \in Inputs({held}, GameOverPresses, {0}, LiveRolls) : Step(inp)

NextLive ==
    LiveMenuTick \/ LivePlayingTick \/ LivePauseTick \/ LiveGameOverTick

SpecLive == Init /\ [][NextLive]_vars /\ WF_vars(NextLive)

-----------------------------------------------------------------------------
(* Properties *)

Tag == game_state.tag

\* the number a decimal rendering stands for
RECURSIVE Parse(_)
Parse(d) == IF d = <<>> THEN 0
            ELSE Parse(SubSeq(d, 1, Len(d) - 1)) * 10 + d[Len(d)]

\* q and c are what generate_question(sc, op) returns for some run in rolls
IsGenerated(q, c, sc, op, rolls) ==
    \E roll \in rolls :
        /\ Returns(sc, op, roll)
        /\ generate_question(sc, op, roll) = [question |-> q, choices |-> c]

\* the countdown of the Pause phase runs out in the step taken
PauseRunsOut == Tag = "Pause" /\ game_state.time_left - ev'.dt <= 0

\* C1: a Playing tick in which lives reach 0 ends in phase GameOver,
\* whatever else happens in that tick.
C1_LastLifeEndsGame ==
    [][(Tag = "Playing" /\ lives > 0 /\ lives' <= 0)
          => game_state'.tag = "GameOver"]_vars

\* C2: the phase starts as Menu and changes only along Menu -> Playing (a
\* difficulty key pressed), Playing -> Pause (a correct-answer overlap),
\* Playing -> GameOver (lives at 0), Pause -> Playing (countdown <= 0) and
\* GameOver -> Menu (restart pressed).
C2_PhaseEdges ==
    /\ Tag = "Menu"
    /\ [][game_state'.tag # Tag =>
            \/ /\ Tag = "Menu" /\ game_state'.tag = "Playing"
               /\ ev'.pressed \cap {"Key0", "Key1", "Key2", "Key3"} # {}
            \/ /\ Tag = "Playing" /\ game_state'.tag = "Pause"
               /\ ev'.hit = "correct"
            \/ /\ Tag = "Playing" /\ game_state'.tag = "GameOver"
               /\ lives' <= 0
            \/ /\ Tag = "Pause" /\ game_state'.tag = "Playing"
               /\ game_state.time_left - ev'.dt <= 0
            \/ /\ Tag = "GameOver" /\ game_state'.tag = "Menu"
               /\ "Space" \in ev'.pressed]_vars

\* back in the menu after an episode that went through Pause and GameOver
C2_CycleClosed ==
    Tag = "Menu" /\ ev.arm = "GameOver" /\ score % RampInterval = Reward

\* C3: a correct-answer collision in a Playing tick begun with lives > 0
\* adds exactly 100 to the score and starts Pause with 0.5 s remaining; the
\* remaining time is 0.5 s less the frame times since, the phase is Pause
\* only while that is positive, and the tick in which it reaches 0 or less
\* returns to Playing with the player at spawn, the alien at y = 0 and a
\* question generated for the score and selected operation.
C3_CorrectThenPause ==
    [][/\ (ev'.arm = "Playing" /\ ev'.hit = "correct" /\ lives > 0)
            => score' = score + 100 /\ game_state' = Pause(500)
       /\ game_state'.tag = "Pause"
            => game_state'.time_left > 0 /\ game_state'.time_left <= 500
       /\ (Tag = "Pause" /\ ~PauseRunsOut)
            => game_state' = Pause(game_state.time_left - ev'.dt)
       /\ PauseRunsOut
            => /\ game_state' = Phase("Playing")
               /\ player' = new_player
               /\ alien'.y = 0
               /\ score' = score
               /\ ev'.gen
               /\ IsGenerated(question', choices', score', selected_op',
                              GameRolls)]_vars

\* the countdown ran out over ordinary frames and play has resumed
C3_PauseRanOut ==
    /\ Tag = "Playing" /\ ev.arm = "Pause" /\ ev.dt = DtFrame /\ ev.gen
    /\ player = new_player /\ alien.y = 0
    /\ score % RampInterval = Reward

\* C4: lives is never negative.
C4_LivesNeverNegative == lives >= 0

\* C5: the player's x stays within [ALIEN_WALL, play-field width - player
\* width].
C5_PlayerInsideField ==
    player.x >= ALIEN_WALL /\ player.x <= screen_width - player.width

\* the player walks into the right edge of the field
C5_AtRightEdge ==
    /\ ev.arm = "Playing" /\ held = {"Right"}
    /\ player.x = screen_width - player.width /\ player.vx = MOVE_SPEED

\* the step resets player and alien and generates a question
ResetInStep ==
    /\ player' = new_player
    /\ alien'.y = 0
    /\ ev'.gen
    /\ IsGenerated(question', choices', score', selected_op', GameRolls)

\* C6 as stated: whenever a life is lost, or a pause countdown expires,
\* player and alien are reset and a question is generated.
C6_EveryLifeLostResets ==
    [][((ev'.arm = "Playing" /\ lives' < lives) \/ PauseRunsOut)
          => ResetInStep]_vars

\* C6 as amended: whenever a hazard breach takes a life and lives remain,
\* or a pause countdown expires, player and alien are reset and a question
\* is generated.
C6_BreachOrPauseResets ==
    [][((ev'.arm = "Playing" /\ ev'.breach /\ lives' > 0) \/ PauseRunsOut)
          => ResetInStep]_vars

\* the alien, descending over ordinary frames, has breached with lives left
C6_BreachReset ==
    /\ Tag = "Playing" /\ ev.arm = "Playing" /\ ev.breach /\ ev.dt = DtFrame
    /\ lives > 0 /\ lives < INITIAL_LIVES
    /\ player = new_player /\ alien.y = 0 /\ ev.gen

\* the operand bounds and the speed as the claims give them
ClaimedAdditionBound(s) == 10 + 10 * (s \div 500)

ClaimedCappedBound(s) == Min(5 + 5 * (s \div 500), 15)

ClaimedBound(sym, s) ==
    IF sym = "+" THEN ClaimedAdditionBound(s) ELSE ClaimedCappedBound(s)

ClaimedSpeed(s) ==
    IF s < 500 THEN 50 ELSE 50 + 25 * (1 + ((s - 500) \div 1000))

CorrectAt == {i \in 1..Len(choices) : choices[i].is_correct}

CorrectValue == Parse(choices[CHOOSE i \in CorrectAt : TRUE].text)

\* C7: generate_question returns exactly 4 choices, exactly 1 of them
\* flagged correct, and each of the 3 distractors shows a value in
\* [1, 2 * bound] that differs from the correct value.
C7_FourChoicesOneCorrect ==
    ev.arm = "generate" =>
        /\ Len(choices) = 4
        /\ Cardinality(CorrectAt) = 1
        /\ \A i \in CorrectAt : \A j \in (1..Len(choices)) \ CorrectAt :
             /\ choices[j].text # choices[i].text
             /\ Parse(choices[j].text) # Parse(choices[i].text)
             /\ Parse(choices[j].text) >= 1
             /\ Parse(choices[j].text) <= 2 * ClaimedBound(question.sym, ev.score)

\* a distractor's first draw equalled the correct answer and was redrawn
C7_RejectedDraw ==
    /\ ev.arm = "generate"
    /\ \E k \in 1..3 :
         gen_range(2 * ClaimedBound(question.sym, ev.score),
                   ev.roll.wrong[k][1]) = CorrectValue

\* C8: in a Division question the divisor and the quotient are in
\* [1, bound], the dividend shown is divisor * quotient and the correct
\* choice shows the quotient.
C8_DivisionExact ==
    (ev.arm = "generate" /\ question.sym = "/") =>
        LET dividend == Parse(question.lhs)
            divisor == Parse(question.rhs)
            quotient == CorrectValue
            bound == ClaimedCappedBound(ev.score)
        IN  /\ divisor >= 1 /\ divisor <= bound
            /\ quotient >= 1 /\ quotient <= bound
            /\ dividend = divisor * quotient

\* a Division question with divisor and quotient both at the capped bound
C8_LargestDivision ==
    /\ ev.arm = "generate" /\ question.sym = "/"
    /\ Parse(question.rhs) = 15 /\ CorrectValue = 15
    /\ Parse(question.lhs) = 225

\* C9: Addition's bound is 10 + 10 * floor(score / 500), Multiplication's
\* and Division's is min(5 + 5 * floor(score / 500), 15), never above 15;
\* from one call to a call at a score at least as high no bound decreases;
\* an operand drawn highest in its range equals the bound.
C9_BoundsRamp ==
    [][ev'.arm = "generate" =>
         /\ ev'.addition_max = ClaimedAdditionBound(ev'.score)
         /\ ev'.multiply_max = ClaimedCappedBound(ev'.score)
         /\ ev'.division_max = ClaimedCappedBound(ev'.score)
         /\ ev'.multiply_max <= 15 /\ ev'.division_max <= 15
         /\ ev'.score >= ev.score =>
              /\ ev'.addition_max >= ev.addition_max
              /\ ev'.multiply_max >= ev.multiply_max
              /\ ev'.division_max >= ev.division_max
         /\ ev'.roll.n1 = -1 =>
              Parse(IF question'.sym = "/" THEN question'.rhs
                    ELSE question'.lhs)
                = ClaimedBound(question'.sym, ev'.score)]_vars

\* a call at a score where Addition's bound has grown to 40 and the
\* Multiplication bound is held at 15
C9_CapReached ==
    /\ ev.arm = "generate" /\ ev.score >= 1500
    /\ ev.addition_max = 40 /\ ev.multiply_max = 15
    /\ multiply_base(ev.score) > 15
    /\ question.sym = "*" /\ Parse(question.lhs) = 15

\* C10: in every Playing tick the alien's speed becomes 50 for a score
\* below 500 and 50 + 25 * (1 + floor((score - 500) / 1000)) otherwise, for
\* the score at the start of the tick; the alien descends by that speed
\* times the frame time; within an episode the speed never decreases.
C10_SpeedStaircase ==
    [][ev'.arm = "Playing" =>
         /\ alien'.speed = ClaimedSpeed(score)
         /\ alien'.speed >= alien.speed
         /\ alien'.y = IF ev'.breach /\ lives' > 0 THEN 0
                       ELSE alien.y + ClaimedSpeed(score) * ev'.dt]_vars

\* the tick in which the score reaches 2500: the alien moved at the speed of
\* score 2400
C10_StepCrossed ==
    /\ ev.arm = "Playing" /\ ev.hit = "correct" /\ score = 2500
    /\ alien.speed = 100 /\ ClaimedSpeed(score) = 125

DifficultyKeys == <<"Key0", "Key1", "Key2", "Key3">>

DifficultyPressed(pressed) == \E k \in 0..3 : DifficultyKeys[k + 1] \in pressed

\* C11: in the menu, pressing the difficulty key of level k makes the phase
\* Playing in the same tick with score 500 * k, lives 10, the player at
\* spawn in Normal, the alien at y = 0 and a question generated for that
\* score and the operation selected.
C11_DifficultyStarts ==
    [][(Tag = "Menu" /\ DifficultyPressed(ev'.pressed)) =>
         /\ game_state' = Phase("Playing")
         /\ \E k \in 0..3 : /\ DifficultyKeys[k + 1] \in ev'.pressed
                            /\ score' = 500 * k
         /\ ("Key2" \in ev'.pressed /\ ~("Key0" \in ev'.pressed)
                /\ ~("Key1" \in ev'.pressed)) => score' = 1000
         /\ lives' = 10
         /\ player' = new_player /\ player'.state = "Normal"
         /\ alien'.y = 0
         /\ IsGenerated(question', choices', score', selected_op',
                        GameRolls)]_vars

\* level 2 pressed together with the Division key: play starts at 1000 with
\* a Division question
C11_StartedAtLevelTwo ==
    /\ Tag = "Playing" /\ ev.arm = "Menu" /\ ev.pressed = {"D", "Key2"}
    /\ score = 1000 /\ lives = 10 /\ question.sym = "/"

\* C12: score is never negative; apart from the preset at Menu -> Playing,
\* every change of score is +100 in a Playing tick with a correct-answer
\* collision, and every such collision adds exactly 100.
C12_ScoreOnlyRewards ==
    /\ score >= 0
    /\ [][/\ score' >= 0
          /\ (score' # score /\ ~(Tag = "Menu" /\ game_state'.tag = "Playing"))
               => /\ score' = score + 100
                  /\ ev'.arm = "Playing" /\ ev'.hit = "correct"
          /\ (ev'.arm = "Playing" /\ ev'.hit = "correct")
               => score' = score + 100]_vars

\* a reward collected in an episode that has already lost lives
C12_RewardAfterLoss ==
    /\ ev.arm = "Playing" /\ ev.hit = "correct"
    /\ score = 600 /\ lives < INITIAL_LIVES /\ lives > 0

\* the keys of a frame without those the phase tag has no use for
HeededPressed(tag, pressed) ==
    pressed \ ((IF tag # "Menu"
                THEN {"A", "M", "D", "X", "Key0", "Key1", "Key2", "Key3"}
                ELSE {})
               \cup (IF tag # "GameOver" THEN {"Space"} ELSE {}))

HeededDown(tag, down) == IF tag = "Playing" THEN down ELSE {}

\* C13: difficulty and operation keys outside the menu, the restart key
\* outside GameOver and movement keys outside Playing are ignored: every
\* step leaves phase, score, lives, operation, player, alien and question as
\* the same step without those inputs leaves them.
C13_IrrelevantKeysIgnored ==
    [][\E r \in {MainLoop(St, [down |-> HeededDown(Tag, held'),
                               pressed |-> HeededPressed(Tag, ev'.pressed),
                               dt |-> ev'.dt,
                               roll |-> RollSecond])} :
         /\ game_state' = r.game_state
         /\ score' = r.score
         /\ lives' = r.lives
         /\ selected_op' = r.selected_op
         /\ player' = r.player
         /\ alien' = r.alien
         /\ question' = r.question
         /\ choices' = r.choices]_vars

\* difficulty, operation and restart keys were pressed during a Playing
\* tick that went on as play
C13_KeysDuringPlay ==
    /\ Tag = "Playing" /\ ev.arm = "Playing"
    /\ ev.pressed = {"Key1", "M", "Space"}
    /\ score = 0 /\ selected_op = "Addition" /\ lives = INITIAL_LIVES
    /\ player # new_player

\* the alien's bottom edge, advanced by the step taken, is at the ground
AlienLands ==
    Descend(update_alien_speed(alien, score), ev'.dt).y + alien.height
        >= GROUND_Y

\* C14: when the alien's bottom edge reaches the ground line in a Playing
\* tick the breach takes exactly 1 life (a wrong-answer collision of the
\* same tick is counted apart); if lives remain the alien is back at y = 0,
\* the player at spawn, a question is generated, the phase is still Playing
\* and neither lives nor score change further in that tick.
C14_BreachTakesOneLife ==
    [][(Tag = "Playing" /\ AlienLands) =>
         /\ ev'.arm = "Playing" /\ ev'.breach
         /\ lives' = lives - 1 - (IF ev'.hit = "wrong" THEN 1 ELSE 0)
         /\ lives - 1 > 0 =>
              /\ lives' = lives - 1
              /\ score' = score
              /\ ev'.hit = "none"
              /\ alien'.y = 0
              /\ player' = new_player
              /\ ev'.gen
              /\ IsGenerated(question', choices', score', selected_op',
                             GameRolls)
              /\ game_state' = Phase("Playing")]_vars

\* the second breach of an episode started at 1500, play going on
C14_SecondBreach ==
    /\ Tag = "Playing" /\ ev.arm = "Playing" /\ ev.breach
    /\ ev.dt = DtStall /\ ev.hit = "none"
    /\ lives = INITIAL_LIVES - 2 /\ score = 1500
    /\ player = new_player /\ alien.y = 0

\* the failing player, moved by gravity for one tick, is past the ground line
Lands == player.y + player.vy + GRAVITY > GROUND_Y

\* C15 as stated: while the episode goes on, a Failing player becomes
\* Normal only in a Playing tick in which it reaches the ground line.
C15_OnlyLandingRecovers ==
    [][(player.state = "Fail" /\ player'.state = "Normal" /\ Tag # "Menu")
          => ev'.arm = "Playing" /\ Lands]_vars

\* C15 as amended: while the episode goes on, a Failing player becomes
\* Normal only in a Playing tick in which it reaches the ground line or in
\* which a breach with lives remaining puts it back at spawn.
C15_LandingOrBreachRecovers ==
    [][(player.state = "Fail" /\ player'.state = "Normal" /\ Tag # "Menu")
          => /\ ev'.arm = "Playing"
             /\ \/ Lands /\ player'.y = GROUND_Y
                \/ ev'.breach /\ lives' > 0 /\ player' = new_player]_vars

\* the player has come down from a wrong answer and stands on the ground,
\* Normal again, in the tick of its landing
C15_Landed ==
    /\ Tag = "Playing" /\ ev.arm = "Playing" /\ ~ev.breach
    /\ player.state = "Normal" /\ player.y = GROUND_Y
    /\ player.vx = 0 /\ "Right" \in held
    /\ lives < INITIAL_LIVES

\* the player as update_player leaves it in the step taken
Moved == update_player(player, held')

\* in a Playing tick the moved player, Normal, touches a wrong answer first,
\* and no breach with lives remaining has replaced player and question
WrongContact ==
    /\ Tag = "Playing"
    /\ ~(AlienLands /\ lives - 1 > 0)
    /\ Moved.state = "Normal"
    /\ FirstOverlap(Moved, choices) # 0
    /\ ~choices[FirstOverlap(Moved, choices)].is_correct

\* C16: a wrong-answer collision in a Playing tick takes exactly 1 life (a
\* breach of the same tick is counted apart); if lives remain the player is
\* Failing with the position and velocity update_player gave it, the alien
\* and the question are as the tick's advance left them, score is unchanged
\* and the phase is still Playing; the player becomes Failing in no other
\* step.
C16_WrongAnswerFails ==
    [][/\ WrongContact =>
            /\ ev'.arm = "Playing" /\ ev'.hit = "wrong"
            /\ lives' = lives - 1 - (IF ev'.breach THEN 1 ELSE 0)
            /\ lives' > 0 =>
                 /\ player' = [Moved EXCEPT !.state = "Fail"]
                 /\ alien' = Descend(update_alien_speed(alien, score), ev'.dt)
                 /\ question' = question /\ choices' = choices
                 /\ score' = score
                 /\ game_state' = Phase("Playing")
       /\ (player'.state = "Fail" /\ player.state # "Fail")
            => WrongContact]_vars

\* the first wrong answer of an episode: the player is Failing and still
\* has the horizontal velocity of its flight
C16_FirstWrong ==
    /\ Tag = "Playing" /\ ev.arm = "Playing" /\ ev.hit = "wrong"
    /\ ~ev.breach /\ lives = INITIAL_LIVES - 1
    /\ player.state = "Fail" /\ player.vx = MOVE_SPEED /\ player.vy < 0

\* C17: in a Playing tick in which the player is Failing after
\* update_player no collision is taken: score is unchanged, lives drop
\* only by the 1 of a breach, and the phase changes only to GameOver by
\* such a breach.
C17_FailingTakesNoCollision ==
    [][(Tag = "Playing" /\ Moved.state = "Fail") =>
         /\ ev'.hit = "none"
         /\ score' = score
         /\ lives' = lives - (IF AlienLands THEN 1 ELSE 0)
         /\ game_state'.tag # "Playing" =>
              /\ AlienLands /\ lives' <= 0
              /\ game_state' = Phase("GameOver")]_vars

\* a tick after the wrong answer: the player, Failing, is still inside the
\* answer's box and has lost that one life only
C17_StillInsideBox ==
    /\ Tag = "Playing" /\ ev.arm = "Playing" /\ ev.hit = "none"
    /\ player.state = "Fail" /\ FirstOverlap(player, choices) # 0
    /\ ~choices[FirstOverlap(player, choices)].is_correct
    /\ lives = INITIAL_LIVES - 1

\* C18: a tick of the Pause phase in which the countdown does not run out
\* only subtracts the frame time from it: score, lives, operation, player,
\* alien and question are unchanged, whatever the keys.
C18_PauseOnlyCountsDown ==
    [][(Tag = "Pause" /\ ~PauseRunsOut) =>
         /\ game_state' = Pause(game_state.time_left - ev'.dt)
         /\ UNCHANGED <<score, lives, selected_op, player, alien, question,
                        choices>>]_vars

\* two frames into a pause, with keys pressed and movement keys held
C18_PausedWithKeys ==
    /\ Tag = "Pause" /\ ev.arm = "Pause"
    /\ game_state.time_left = PauseMs - 2 * DtFrame
    /\ ev.pressed = {"Key2", "X"} /\ held = {"Left", "Up"}

OperationKeys == {"A", "M", "D", "X"}

OperationOfKey(key) ==
    CASE key = "A" -> "Addition"
      [] key = "M" -> "Multiplication"
      [] key = "D" -> "Division"
      [] key = "X" -> "Mixed"

\* C19: the operation starts as Addition; it changes only in a menu tick
\* with an operation key pressed, to the operation of a pressed key; the
\* menu stays unless a difficulty key is pressed too; every step outside
\* the menu keeps it.
C19_OperationPersists ==
    /\ selected_op = "Addition"
    /\ [][/\ selected_op' # selected_op =>
               /\ Tag = "Menu"
               /\ \E key \in ev'.pressed \cap OperationKeys :
                    selected_op' = OperationOfKey(key)
          /\ (Tag = "Menu" /\ ev'.pressed \cap OperationKeys # {}) =>
               /\ \E key \in ev'.pressed \cap OperationKeys :
                    selected_op' = OperationOfKey(key)
               /\ ~DifficultyPressed(ev'.pressed) => game_state'.tag = "Menu"
          /\ Tag # "Menu" => selected_op' = selected_op]_vars

\* back in the menu after an episode played in Mixed, with operation and
\* difficulty keys pressed together with the restart key
C19_KeptAcrossEpisodes ==
    /\ Tag = "Menu" /\ ev.arm = "GameOver"
    /\ ev.pressed = {"Space", "D", "Key3"}
    /\ selected_op = "Mixed" /\ lives <= 0

\* the boxes the player's box overlaps
Touched ==
    {i \in 1..Len(choices) :
       /\ player.x < choices[i].x + 100 * Unit
       /\ player.x + 60 * Unit > choices[i].x
       /\ player.y < choices[i].y + 80 * Unit
       /\ player.y + 60 * Unit > choices[i].y}

\* C20: the four answer boxes are at x = 100 + 206 * (i + 0.5) - 40 and
\* y = 200; the player's box overlaps at most one of them, and the box the
\* collision check finds first is that one: the result does not depend on
\* the order of the list.
C20_AtMostOneOverlap ==
    /\ Len(choices) = 4
    /\ \A i \in 1..Len(choices) :
         /\ choices[i].x = 100 * Unit + 103 * Unit * (2 * (i - 1) + 1)
                             - 40 * Unit
         /\ choices[i].y = 200 * Unit
    /\ player.width = 60 * Unit /\ player.height = 60 * Unit
    /\ Cardinality(Touched) <= 1
    /\ ev.arm = "checked" =>
         /\ \A i \in Touched : ev.first = i
         /\ ev.first = 0 <=> Touched = {}
         /\ ev.first # 0 =>
              ev.hit = (IF choices[ev.first].is_correct THEN "correct"
                        ELSE "wrong")

\* the check has found the fourth box, a wrong answer, under the player
C20_FourthBoxTouched ==
    /\ ev.arm = "checked" /\ ev.first = 4 /\ Touched = {4}
    /\ ev.hit = "wrong" /\ player.state = "Fail"
    /\ lives = INITIAL_LIVES - 1

\* the height update_player's integration gives before any clamp
Risen ==
    player.y + player.vy + GRAVITY
      - (IF player.state = "Normal" /\ "Up" \in held' THEN BOOST ELSE 0)

\* the step is a Playing tick that has not put a fresh player at spawn
PlayerKept == ev'.arm = "Playing" /\ ~(ev'.breach /\ lives' > 0)

\* C21 as stated: after every Playing tick the player's y is within
\* [0, GROUND_Y], in Normal and in Failing; when y is clamped at 0 or at
\* the ground line the vertical velocity is 0.
C21_HeightInsideField ==
    [][ev'.arm = "Playing" =>
         /\ player'.y >= 0 /\ player'.y <= GROUND_Y
         /\ (PlayerKept /\ Risen < 0) => player'.y = 0 /\ player'.vy = 0
         /\ (PlayerKept /\ Risen > GROUND_Y)
              => player'.y = GROUND_Y /\ player'.vy = 0]_vars

\* C21 as amended: after every Playing tick y is at most GROUND_Y, and at
\* least 0 for a player that was Normal when the tick began; the clamp at
\* the ground (both states) and the clamp at 0 (Normal only) set the
\* vertical velocity to 0; a Failing player is not clamped at 0.
C21_HeightAboveGround ==
    [][ev'.arm = "Playing" =>
         /\ player'.y <= GROUND_Y
         /\ player.state = "Normal" => player'.y >= 0
         /\ (PlayerKept /\ Risen > GROUND_Y)
              => player'.y = GROUND_Y /\ player'.vy = 0
         /\ (PlayerKept /\ player.state = "Normal" /\ Risen < 0)
              => player'.y = 0 /\ player'.vy = 0
         /\ (PlayerKept /\ player.state = "Fail" /\ Risen <= GROUND_Y)
              => player'.y = Risen /\ player'.vy = player.vy + GRAVITY]_vars

\* a player that entered a wrong answer from the side while climbing fast
\* is Failing above the top of the field
C21_FailingAboveTop ==
    /\ Tag = "Playing" /\ ev.arm = "Playing"
    /\ player.state = "Fail" /\ player.y < 0 /\ player.vy < 0

\* C22: from every Playing state, with every frame taking a fixed positive
\* time at least, the run comes to a correct-answer collision or to
\* GameOver: without correct answers an episode ends.
C22_EpisodeEnds ==
    (Tag = "Playing") ~> (Tag = "GameOver" \/ ev.hit = "correct")

\* an episode without any correct answer has ended by the alien's descent
\* over ordinary frames
C22_EndedWithoutAnswer ==
    /\ Tag = "GameOver" /\ ev.arm = "Playing" /\ ev.breach
    /\ ev.dt = DtSlow /\ ev.hit = "none"
    /\ score = 0 /\ lives = 0


====
